---- MODULE Spec2Model ----
(***************************************************************************)
(* A model of the em_data augmentors: Blur (out-of-focus sections),        *)
(* LongAff (greyscale perturbation) and Flip (random flip), driven by a    *)
(* pipeline that constructs one augmentor, configures it with its setters, *)
(* and calls prepare / __call__ on a sample (a dict of named volumes).     *)
(*                                                                         *)
(* Numbers.  np.random.rand() is a draw r from Rand, standing for the real *)
(* r / RandDen in [0,1).  Pixel values are integers in units of 1/One, so  *)
(* One is the real 1.0; floating point rounding is integer division.       *)
(* Python asserts are taken as active (no -O).                             *)
(***************************************************************************)
EXTENDS Integers, FiniteSets, Sequences, TLC

VARIABLES
    inst,     \* class of the augmentor instance the driver holds, or "none"
    cfg,      \* the instance's attributes MAX_SEC, sigma_max, mode, skip_ratio
    skip,     \* the instance's attribute skip: [set, val]; unset before prepare
    sample,   \* the sample dict: key -> array currently stored under the key
    caller,   \* contents of the array objects the caller put into the sample
    bound,    \* key -> whether sample[key] is still the caller's array object
    call,     \* the __call__ in progress (its loop position), pc = "idle" if none
    pre,      \* history: the sample as it was when the last __call__ began
    last,     \* history: the last operation, its arguments, draws and outcome
    hist,     \* history: of the skip value, the ratio it was drawn under and
              \*          the number of __call__s that have read it; of the
              \*          sample, the rules Flip was called with on it
    nCalls    \* number of __call__s begun

vars == <<inst, cfg, skip, sample, caller, bound, call, pre, last, hist, nCalls>>

----------------------------------------------------------------------------
(* Bounds of the model. *)

\* largest max_sec argument tried (the code accepts any max_sec >= 0)
MaxSec == 2
\* number of __call__s in one run
MaxCalls == 2
\* np.random.rand(): a draw r in Rand stands for the real r / RandDen
RandDen == 4

\* the draws tried: 0.0 and 0.75, one on each side of 0.5
Rand == {0, RandDen - 1}
\* the real 1.0 in pixel units; 2 * 10 * RandDen makes LongAff's shifts integral
One == 2 * 10 * RandDen

Keys == {"img", "aux"}
BlurModes == {"full", "partial", "mix"}
GreyModes == {"2D", "3D", "mix"}

----------------------------------------------------------------------------
(* Volumes: [shape |-> <<Z, Y, X>>, data |-> [<<z, y, x>> -> pixel]].      *)

Idx(shape) == (0 .. shape[1] - 1) \X (0 .. shape[2] - 1) \X (0 .. shape[3] - 1)

\* "flat" is all ones; "ramp" has distinct values below 0, in [0,1] and above 1
Pixel(p, z, y, x) ==
    IF p = "flat" THEN One
    ELSE ((4 * z + 2 * y + x) * One) \div 4 - One \div 4

Volume(shape, p) ==
    [shape |-> shape,
     data  |-> [i \in Idx(shape) |-> Pixel(p, i[1], i[2], i[3])]]

MkSample(si, pi, sa, pa) ==
    [k \in Keys |-> IF k = "img" THEN Volume(si, pi) ELSE Volume(sa, pa)]

\* the examples the driver feeds: both keys of one extent (Z = 1, Z = 2, and
\* Y # X), or of different extents (and Z = 3)
Samples ==
    {MkSample(<<1, 2, 2>>, "ramp", <<1, 2, 2>>, "flat"),
     MkSample(<<2, 2, 2>>, "ramp", <<2, 2, 2>>, "flat"),
     MkSample(<<2, 1, 2>>, "ramp", <<2, 1, 2>>, "ramp"),
     MkSample(<<3, 2, 2>>, "ramp", <<2, 2, 2>>, "ramp")}

\* before the first example: no arrays
NoSample == [k \in Keys |-> Volume(<<0, 0, 0>>, "flat")]

\* the (Y, X) plane v[..., z, :, :] as [shape |-> <<Y, X>>, px |-> [<<y, x>> -> pixel]]
Slice(v, z) ==
    [shape |-> <<v.shape[2], v.shape[3]>>,
     px    |-> [i \in (0 .. v.shape[2] - 1) \X (0 .. v.shape[3] - 1) |->
                    v.data[<<z, i[1], i[2]>>]]]

\* v[..., z, :, :] = img
SetSlice(v, z, img) ==
    [v EXCEPT !.data = [i \in DOMAIN v.data |->
        IF i[1] = z THEN img.px[<<i[2], i[3]>>] ELSE v.data[i]]]

----------------------------------------------------------------------------
(* Blur: the Gaussian filter and the quadrant assignments.                 *)

\* scipy's boundary mode "reflect" for a kernel of radius 1
Refl(i, n) == IF i < 0 THEN 0 ELSE IF i >= n THEN n - 1 ELSE i

\* One pass of the filter along an axis (ax = 1 is Y, ax = 2 is X) with the
\* kernel (w1, w0, w1) / (w0 + 2 w1), w1 / w0 = sigma / 2: an integer stand-in
\* for the truncated Gaussian kernel.  sigN is sigma in units of 1 / RandDen.
Filter1D(img, ax, sigN) ==
    LET n  == img.shape[ax]
        w0 == 2 * RandDen
        w1 == sigN
        at(i, d) == IF ax = 1 THEN <<Refl(i[1] + d, n), i[2]>>
                              ELSE <<i[1], Refl(i[2] + d, n)>>
    IN  [img EXCEPT !.px = [i \in DOMAIN img.px |->
            (w0 * img.px[i] + w1 * img.px[at(i, -1)] + w1 * img.px[at(i, 1)])
                \div (w0 + 2 * w1)]]

\* gaussian_filter(img, sigma=sigma): same shape; axes of width 0 are skipped
GaussianFilter(img, sigN) ==
    IF sigN = 0 THEN img ELSE Filter1D(Filter1D(img, 1, sigN), 2, sigN)

\* a slip in the slicing of the 3rd quadrant: [y:,x:] for [:y,x:]
InQuadrant_Swapped(i, q, y, x) ==
    CASE q = 1 -> i[1] < y  /\ i[2] < x
      [] q = 2 -> i[1] >= y /\ i[2] < x
      [] q = 3 -> i[1] >= y /\ i[2] >= x
      [] q = 4 -> i[1] >= y /\ i[2] >= x

\* whether pixel i = <<yy, xx>> of a slice lies in quadrant q of the split
\* point (x, y): the slicings [:y,:x], [y:,:x], [:y,x:], [y:,x:]
InQuadrant(i, q, y, x) ==
    CASE q = 1 -> i[1] < y  /\ i[2] < x
      [] q = 2 -> i[1] >= y /\ i[2] < x
      [] q = 3 -> i[1] < y  /\ i[2] >= x
      [] q = 4 -> i[1] >= y /\ i[2] >= x

\* if rule[q]: sample[key][...,z,<quadrant q>] = img[...,<quadrant q>]
AssignQuadrant(dst, src, q, y, x, flag) ==
    IF flag
    THEN [dst EXCEPT !.px = [i \in DOMAIN dst.px |->
            IF InQuadrant(i, q, y, x) THEN src.px[i] ELSE dst.px[i]]]
    ELSE dst

\* the four conditional assignments, in the code's order
AssignQuadrants(dst, src, y, x, rule) ==
    LET s1 == AssignQuadrant(dst, src, 1, y, x, rule[1])
        s2 == AssignQuadrant(s1, src, 2, y, x, rule[2])
        s3 == AssignQuadrant(s2, src, 3, y, x, rule[3])
    IN  AssignQuadrant(s3, src, 4, y, x, rule[4])

----------------------------------------------------------------------------
(* LongAff: contrast, brightness, clip, gamma on one pixel value.          *)

\* CONTRAST_FACTOR and BRIGHTNESS_FACTOR, 0.3, in tenths
ContrastFactor10 == 3
BrightnessFactor10 == 3

\* v * (1 + (rand - 0.5) * CONTRAST_FACTOR)
Contrast(v, r) == (v * (One + ContrastFactor10 * (2 * r - RandDen))) \div One

\* v + (rand - 0.5) * BRIGHTNESS_FACTOR
Brightness(v, r) == v + BrightnessFactor10 * (2 * r - RandDen)

\* np.clip(v, 0, 1)
Clip(v) == IF v < 0 THEN 0 ELSE IF v > One THEN One ELSE v

\* the exponent 2.0 ** (rand * 2 - 1), in [0.5, 2), rounded to halves:
\* 1/2 for rand < 0.5, 1 for rand = 0.5, 3/2 for rand > 0.5
GammaHalves(r) ==
    IF 2 * r < RandDen THEN 1 ELSE IF 2 * r = RandDen THEN 2 ELSE 3

\* the integer square root of n, n >= 0, which is at most hi
ISqrt(n, hi) == CHOOSE k \in 0 .. hi : k * k <= n /\ (k + 1) * (k + 1) > n

\* numpy's nan (a negative base to a fractional power), a value outside [0, 1]
NaN == 0 - One * One

\* v ** (h / 2)
Pow(v, h) ==
    IF h = 2 THEN v
    ELSE IF v < 0 THEN NaN
    ELSE IF h = 1 THEN ISqrt(v * One, v + One)
    ELSE ISqrt((v * v * v) \div One, v + (v * v) \div One)

\* the four steps on one pixel with the draws d = <<contrast, brightness, gamma>>
GreyPixel(v, d) == Pow(Clip(Brightness(Contrast(v, d[1]), d[2])), GammaHalves(d[3]))

\* the contrast and brightness steps alone
GreyLinear(v, d) == Brightness(Contrast(v, d[1]), d[2])

\* the draws <<contrast, brightness, gamma>> tried
GreyDraws ==
    LET lo == 0
        hi == RandDen - 1
    IN  {<<lo, lo, lo>>, <<hi, hi, hi>>, <<lo, hi, hi>>, <<hi, lo, lo>>}

----------------------------------------------------------------------------
(* Flip: em_segLib.transform.flip, as the rule vector is documented:       *)
(* <<reverse Z, reverse Y, reverse X, transpose Y/X>>, applied in order.   *)

Reverse(v, ax) ==
    [v EXCEPT !.data = [i \in DOMAIN v.data |->
        v.data[[i EXCEPT ![ax] = v.shape[ax] - 1 - i[ax]]]]]

Transpose(v) ==
    LET shape == <<v.shape[1], v.shape[3], v.shape[2]>>
    IN  [shape |-> shape,
         data  |-> [i \in Idx(shape) |-> v.data[<<i[1], i[3], i[2]>>]]]

flip(v, rule) ==
    LET a == IF rule[1] THEN Reverse(v, 1) ELSE v
        b == IF rule[2] THEN Reverse(a, 2) ELSE a
        c == IF rule[3] THEN Reverse(b, 3) ELSE b
    IN  IF rule[4] THEN Transpose(c) ELSE c

Rules == [1 .. 4 -> BOOLEAN]

\* np.random.rand(4) > 0.5
RuleOf(draws) == [q \in 1 .. 4 |-> 2 * draws[q] > RandDen]

----------------------------------------------------------------------------
(* The augmentor instance: attributes, setters, constructors, prepare.     *)

NoCfg == [MAX_SEC |-> 0, sigma_max |-> 0, mode |-> "", literal |-> TRUE, skip_ratio |-> 0]
NoSkip == [set |-> FALSE, val |-> FALSE]
NoHist == [ratio |-> 0, reads |-> 0, rules |-> <<>>]
NoArg == [n |-> 0, s |-> "", b |-> TRUE]
NoIt == [z |-> 0, key |-> "", sigma |-> 0, full |-> FALSE, y |-> 0, x |-> 0,
         rule |-> [q \in 1 .. 4 |-> FALSE], d |-> <<0, 0, 0>>]
Idle == [pc |-> "idle", imgs |-> <<>>, zs |-> {}, ki |-> 1, zi |-> 0, sigma |-> 0,
         dim |-> <<0, 0, 0>>]

\* the record of an operation in last
Op(op, arg, outcome) ==
    [op |-> op, arg |-> arg, outcome |-> outcome, imgs |-> <<>>, num_sec |-> 0,
     zlocs |-> {}, mode |-> "", it |-> NoIt]

\* arguments tried
MaxSecArgs == -1 .. MaxSec
SigmaArgs == {-1, 0, 2}
ModeArgs == BlurModes \cup GreyModes
RatioArgs == {-1, 0, RandDen, RandDen + 1}

\* the setters' asserts; a skip ratio is in units of 1 / RandDen
ValidMaxSec(max_sec) == max_sec >= 0
ValidSigmaMax(sigma_max) == sigma_max >= 0
ValidBlurMode(mode) == mode = "full" \/ mode = "partial" \/ mode = "mix"
ValidGreyMode(mode) == mode = "2D" \/ mode = "3D" \/ mode = "mix"
\* the ratio's upper bound forgotten
ValidRatio_NoUpper(ratio) == ratio >= 0
ValidRatio(ratio) == ratio >= 0 /\ ratio <= RandDen

\* a setter: the assert, then the assignment; [ok, cfg]
Setter(valid, c, new) == IF valid THEN [ok |-> TRUE, cfg |-> new] ELSE [ok |-> FALSE, cfg |-> c]

set_max_sections(c, max_sec) ==
    Setter(ValidMaxSec(max_sec), c, [c EXCEPT !.MAX_SEC = max_sec])
set_sigma_max(c, sigma_max) ==
    Setter(ValidSigmaMax(sigma_max), c, [c EXCEPT !.sigma_max = sigma_max])
Blur_set_mode(c, mode) ==
    Setter(ValidBlurMode(mode), c, [c EXCEPT !.mode = mode])
\* literal: whether the string object passed is the interned literal, which
\* LongAff.__call__ tests with "is"; a string built at run time is not
LongAff_set_mode(c, mode, literal) ==
    Setter(ValidGreyMode(mode), c, [c EXCEPT !.mode = mode, !.literal = literal])
set_skip_ratio(c, ratio) ==
    Setter(ValidRatio(ratio), c, [c EXCEPT !.skip_ratio = ratio])

\* r2 applied if r1 succeeded: the statements of __init__ in sequence
Then(r1, r2) == IF r1.ok THEN r2 ELSE r1

Blur_init(max_sec, sigma_max, mode, ratio) ==
    LET r1 == set_max_sections(NoCfg, max_sec)
        r2 == Then(r1, set_sigma_max(r1.cfg, sigma_max))
        r3 == Then(r2, Blur_set_mode(r2.cfg, mode))
    IN  Then(r3, set_skip_ratio(r3.cfg, ratio))

LongAff_init(mode, literal, ratio) ==
    LET r1 == LongAff_set_mode(NoCfg, mode, literal)
    IN  Then(r1, set_skip_ratio(r1.cfg, ratio))

\* aug = Cls(...): the driver's variable is bound only if __init__ returns
Constructed(cls, r) ==
    /\ inst' = IF r.ok THEN cls ELSE inst
    /\ cfg'  = IF r.ok THEN r.cfg ELSE cfg
    /\ last' = Op("init", NoArg, IF r.ok THEN "ok" ELSE "AssertionError")
    /\ UNCHANGED <<skip, sample, caller, bound, call, pre, hist, nCalls>>

NewBlur ==
    /\ inst = "none"
    /\ \E max_sec \in MaxSecArgs, sigma_max \in SigmaArgs, mode \in ModeArgs,
          ratio \in RatioArgs :
            Constructed("Blur", Blur_init(max_sec, sigma_max, mode, ratio))

NewLongAff ==
    /\ inst = "none"
    /\ \E mode \in ModeArgs, literal \in BOOLEAN, ratio \in RatioArgs :
            Constructed("LongAff", LongAff_init(mode, literal, ratio))

NewFlip ==
    /\ inst = "none"
    /\ Constructed("Flip", [ok |-> TRUE, cfg |-> NoCfg])

\* a setter call on the instance, between __call__s
SetterCall(op, arg, r) ==
    /\ call.pc = "idle"
    /\ cfg' = r.cfg
    /\ last' = Op(op, arg, IF r.ok THEN "ok" ELSE "AssertionError")
    /\ UNCHANGED <<inst, skip, sample, caller, bound, call, pre, hist, nCalls>>

SetMaxSections ==
    /\ inst = "Blur"
    /\ \E a \in MaxSecArgs :
        SetterCall("set_max_sections", [NoArg EXCEPT !.n = a], set_max_sections(cfg, a))

SetSigmaMax ==
    /\ inst = "Blur"
    /\ \E a \in SigmaArgs :
        SetterCall("set_sigma_max", [NoArg EXCEPT !.n = a], set_sigma_max(cfg, a))

SetBlurMode ==
    /\ inst = "Blur"
    /\ \E a \in ModeArgs :
        SetterCall("set_mode", [NoArg EXCEPT !.s = a], Blur_set_mode(cfg, a))

SetGreyMode ==
    /\ inst = "LongAff"
    /\ \E a \in ModeArgs, lit \in BOOLEAN :
        SetterCall("set_mode", [NoArg EXCEPT !.s = a, !.b = lit],
                   LongAff_set_mode(cfg, a, lit))

SetSkipRatio ==
    /\ inst \in {"Blur", "LongAff"}
    /\ \E a \in RatioArgs :
        SetterCall("set_skip_ratio", [NoArg EXCEPT !.n = a], set_skip_ratio(cfg, a))

\* the comparison inverted
SkipDraw_Inverted(r, ratio) == r > ratio

\* np.random.rand() < self.skip_ratio
SkipDraw(r, ratio) == r < ratio

\* Blur.prepare and LongAff.prepare: draw skip; the spec is returned unchanged
Prepare ==
    /\ inst \in {"Blur", "LongAff"}
    /\ call.pc = "idle"
    /\ \E r \in Rand :
        /\ skip' = [set |-> TRUE, val |-> SkipDraw(r, cfg.skip_ratio)]
        /\ last' = Op("prepare", [NoArg EXCEPT !.n = r], "ok")
    /\ hist' = [ratio |-> cfg.skip_ratio, reads |-> 0, rules |-> <<>>]
    /\ UNCHANGED <<inst, cfg, sample, caller, bound, call, pre, nCalls>>

\* Flip.prepare: returns the spec
FlipPrepare ==
    /\ inst = "Flip"
    /\ call.pc = "idle"
    /\ last' = Op("prepare", NoArg, "ok")
    /\ UNCHANGED <<inst, cfg, skip, sample, caller, bound, call, pre, hist, nCalls>>

----------------------------------------------------------------------------
(* __call__: shared pieces.  The driver passes Blur and LongAff a fresh     *)
(* example on each call (they are called once per example); Flip may also   *)
(* be passed the sample it returned.                                        *)

\* kwargs['imgs']: the keys to act on, in the caller's order
ImgsArgs == {<<>>, <<"img">>, <<"aux">>, <<"img", "aux">>, <<"aux", "img">>}

Range(seq) == {seq[i] : i \in 1 .. Len(seq)}
Min(S) == CHOOSE m \in S : \A n \in S : m <= n
AllBound == [k \in Keys |-> TRUE]

\* the call is entered with the example s, whose arrays are the caller's
Enter(s) ==
    /\ call.pc = "idle"
    /\ nCalls < MaxCalls
    /\ nCalls' = nCalls + 1
    /\ pre' = s
    /\ sample' = s
    /\ caller' = s
    /\ bound' = AllBound

\* the call returns or raises in its first statements
Leave(rec) ==
    /\ call' = Idle
    /\ last' = rec

\* the call raises in its loop, with the arrays as they are
Abort(rec) ==
    /\ call' = Idle
    /\ last' = rec
    /\ UNCHANGED <<sample, caller, bound>>

\* an in-place write of array contents new under key: the array object is the
\* one stored under the key, which the caller sees too while it is its own
WriteInPlace(key, new) ==
    /\ sample' = [sample EXCEPT ![key] = new]
    /\ caller' = IF bound[key] THEN [caller EXCEPT ![key] = new] ELSE caller
    /\ UNCHANGED bound

\* a __call__ that discards the flag it has read
SkipGate_Discards(imgs, Body) ==
    IF ~skip.set
    THEN /\ Leave([Op("call", NoArg, "AttributeError") EXCEPT !.imgs = imgs])
         /\ UNCHANGED <<skip, hist>>
    ELSE /\ hist' = [hist EXCEPT !.reads = @ + 1]
         /\ skip' = NoSkip
         /\ IF skip.val
            THEN Leave([Op("call", NoArg, "skipped") EXCEPT !.imgs = imgs])
            ELSE Body

\* "if not self.skip": reading the attribute before any prepare raises
\* AttributeError; Body is the non-skipped branch; skip is only read
SkipGate(imgs, Body) ==
    IF ~skip.set
    THEN /\ Leave([Op("call", NoArg, "AttributeError") EXCEPT !.imgs = imgs])
         /\ UNCHANGED <<skip, hist>>
    ELSE /\ hist' = [hist EXCEPT !.reads = @ + 1]
         /\ UNCHANGED skip
         /\ IF skip.val
            THEN Leave([Op("call", NoArg, "skipped") EXCEPT !.imgs = imgs])
            ELSE Body

----------------------------------------------------------------------------
(* Blur.__call__ and Blur.augment.                                         *)

\* np.random.randint(1, MAX_SEC + 1): the values it can return; it raises
\* ValueError when there is none
NumSecDraws(max_sec) == 1 .. max_sec

\* <= for <
SectionsFit_Le(num_sec, zdim) == num_sec <= zdim

\* assert num_sec < dim[-3]
SectionsFit(num_sec, zdim) == num_sec < zdim

\* the set dims of the loop over imgs
Dims(s, imgs) == {s[key].shape : key \in Range(imgs)}

\* the assert on dims after the loop left out
BlurAsserts_NoDimsCheck(s, imgs, num_sec) ==
    \A key \in Range(imgs) : SectionsFit(num_sec, s[key].shape[1])

\* the asserts of the loop over imgs and the one after it
BlurAsserts(s, imgs, num_sec) ==
    /\ \A key \in Range(imgs) : SectionsFit(num_sec, s[key].shape[1])
    /\ Cardinality(Dims(s, imgs)) = 1

\* replace=True: a z can be drawn twice
ZlocsChoices_WithReplacement(zdim, num_sec) ==
    {S \in SUBSET (0 .. zdim - 1) : Cardinality(S) >= 1 /\ Cardinality(S) <= num_sec}

\* np.random.choice(zdim, num_sec, replace=False), sorted: the sets it can return
ZlocsChoices(zdim, num_sec) ==
    {S \in SUBSET (0 .. zdim - 1) : Cardinality(S) = num_sec}

\* augment, up to the loops over zlocs
BlurAugment(s, imgs) ==
    IF NumSecDraws(cfg.MAX_SEC) = {}
    THEN Leave([Op("call", NoArg, "ValueError") EXCEPT !.imgs = imgs, !.mode = cfg.mode])
    ELSE \E num_sec \in NumSecDraws(cfg.MAX_SEC) :
        LET rec == [Op("call", NoArg, "running") EXCEPT !.imgs = imgs, !.num_sec = num_sec,
                                                       !.mode = cfg.mode]
        IN  IF ~BlurAsserts(s, imgs, num_sec)
            THEN Leave([rec EXCEPT !.outcome = "AssertionError"])
            ELSE IF Dims(s, imgs) = {}
            THEN Leave([rec EXCEPT !.outcome = "KeyError"])      \* dims.pop()
            ELSE LET dim == CHOOSE d \in Dims(s, imgs) : TRUE
                 IN  IF ZlocsChoices(dim[1], num_sec) = {}
                     THEN Leave([rec EXCEPT !.outcome = "ValueError"])
                     ELSE \E zlocs \in ZlocsChoices(dim[1], num_sec) :
                            /\ call' = [Idle EXCEPT !.pc = "blur", !.imgs = imgs,
                                                    !.zs = zlocs, !.dim = dim]
                            /\ last' = [rec EXCEPT !.zlocs = zlocs]

BlurCall ==
    /\ inst = "Blur"
    /\ UNCHANGED <<inst, cfg>>
    /\ \E s \in Samples, imgs \in ImgsArgs :
        /\ Enter(s)
        /\ SkipGate(imgs, BlurAugment(s, imgs))

\* the end of one pass of the inner loop over imgs: the next key, the next z,
\* or the return
BlurAdvance(key, z, new, it, sigma) ==
    /\ WriteInPlace(key, SetSlice(sample[key], z, new))
    /\ IF call.ki < Len(call.imgs)
       THEN /\ call' = [call EXCEPT !.ki = @ + 1, !.sigma = sigma]
            /\ last' = [last EXCEPT !.it = it]
       ELSE IF call.zs # {z}
       THEN /\ call' = [call EXCEPT !.ki = 1, !.zs = @ \ {z}, !.sigma = 0]
            /\ last' = [last EXCEPT !.it = it]
       ELSE /\ call' = Idle
            /\ last' = [last EXCEPT !.it = it, !.outcome = "ok"]

\* one pass of the inner loop: slice z of one key
BlurStep ==
    /\ call.pc = "blur"
    /\ UNCHANGED <<inst, cfg, skip, pre, hist, nCalls>>
    /\ LET z   == Min(call.zs)
           key == call.imgs[call.ki]
           v   == sample[key]
       IN  IF z >= v.shape[1]
           THEN Abort([last EXCEPT !.outcome = "IndexError"])
           ELSE LET img == Slice(v, z)
                    it0 == [NoIt EXCEPT !.z = z, !.key = key]
                IN  IF cfg.mode = "full"
                    THEN \E r \in Rand :
                           LET sigma == r * cfg.sigma_max
                           IN  BlurAdvance(key, z, GaussianFilter(img, sigma),
                                   [it0 EXCEPT !.sigma = sigma, !.full = TRUE], 0)
                    ELSE \E r \in IF call.ki = 1 THEN Rand ELSE {0},
                            coin \in IF cfg.mode = "mix" THEN Rand ELSE {0} :
                           \* sigma is drawn once per z, before the loop over imgs;
                           \* the coin is drawn only in mode 'mix'
                           LET sigma == IF call.ki = 1 THEN r * cfg.sigma_max ELSE call.sigma
                               B     == GaussianFilter(img, sigma)
                               it1   == [it0 EXCEPT !.sigma = sigma]
                           IN  IF cfg.mode = "mix" /\ 2 * coin > RandDen
                               THEN BlurAdvance(key, z, B, [it1 EXCEPT !.full = TRUE], sigma)
                               ELSE \E x \in 0 .. call.dim[3] - 1, y \in 0 .. call.dim[2] - 1,
                                       draws \in [1 .. 4 -> Rand] :
                                      BlurAdvance(key, z,
                                          AssignQuadrants(img, B, y, x, RuleOf(draws)),
                                          [it1 EXCEPT !.y = y, !.x = x, !.rule = RuleOf(draws)],
                                          sigma)

----------------------------------------------------------------------------
(* LongAff.__call__, augment2D and augment3D.                              *)

MapVolume(v, d, F(_, _)) == [v EXCEPT !.data = [i \in DOMAIN v.data |-> F(v.data[i], d)]]
MapSlice(img, d, F(_, _)) == [img EXCEPT !.px = [i \in DOMAIN img.px |-> F(img.px[i], d)]]

\* the mode object tested by "mode is '2D'" / "mode is '3D'": the literal
\* drawn for 'mix', otherwise the object stored by set_mode
GreyMode(c, r) ==
    IF c.mode = "mix"
    THEN [mode |-> IF 2 * r > RandDen THEN "3D" ELSE "2D", literal |-> TRUE]
    ELSE [mode |-> c.mode, literal |-> c.literal]

\* "mode is '2D'": equal strings are one object only if both are the literal
Is(m, lit) == m.mode = lit /\ m.literal

\* the non-skipped branch of __call__, up to the loops of augment2D / augment3D
GreyAugment(imgs) ==
    \E r \in Rand :
        LET m    == GreyMode(cfg, r)
            path == IF Is(m, "2D") THEN "2D" ELSE IF Is(m, "3D") THEN "3D" ELSE "none"
            rec  == [Op("call", NoArg, "running") EXCEPT !.imgs = imgs, !.mode = path]
        IN  IF path = "none" \/ imgs = <<>>
            THEN Leave([rec EXCEPT !.outcome = "ok"])
            ELSE /\ call' = [Idle EXCEPT !.pc = IF path = "2D" THEN "grey2D" ELSE "grey3D",
                                         !.imgs = imgs]
                 /\ last' = rec

GreyCall ==
    /\ inst = "LongAff"
    /\ UNCHANGED <<inst, cfg>>
    /\ \E s \in Samples, imgs \in ImgsArgs :
        /\ Enter(s)
        /\ SkipGate(imgs, GreyAugment(imgs))

\* augment2D, one pass of the loop over z: the slice is rescaled and shifted,
\* clipped into a new array, raised to the power, and written back
GreyStep2D ==
    /\ call.pc = "grey2D"
    /\ UNCHANGED <<inst, cfg, skip, pre, hist, nCalls>>
    /\ LET key == call.imgs[call.ki]
           v   == sample[key]
           z   == call.zi
       IN  \E d \in GreyDraws :
            /\ WriteInPlace(key, SetSlice(v, z, MapSlice(Slice(v, z), d, GreyPixel)))
            /\ LET it == [NoIt EXCEPT !.z = z, !.key = key, !.d = d]
               IN  IF z + 1 < v.shape[1]
                   THEN /\ call' = [call EXCEPT !.zi = z + 1]
                        /\ last' = [last EXCEPT !.it = it]
                   ELSE IF call.ki < Len(call.imgs)
                   THEN /\ call' = [call EXCEPT !.ki = @ + 1, !.zi = 0]
                        /\ last' = [last EXCEPT !.it = it]
                   ELSE /\ call' = Idle
                        /\ last' = [last EXCEPT !.it = it, !.outcome = "ok"]

\* augment3D, one pass of the loop over imgs: *= and += act on the array
\* stored under the key; np.clip returns a new array, which is stored under
\* the key and raised to the power
GreyStep3D ==
    /\ call.pc = "grey3D"
    /\ UNCHANGED <<inst, cfg, skip, pre, hist, nCalls>>
    /\ LET key == call.imgs[call.ki]
           v   == sample[key]
       IN  \E d \in GreyDraws :
            /\ caller' = IF bound[key]
                         THEN [caller EXCEPT ![key] = MapVolume(v, d, GreyLinear)]
                         ELSE caller
            /\ sample' = [sample EXCEPT ![key] = MapVolume(v, d, GreyPixel)]
            /\ bound' = [bound EXCEPT ![key] = FALSE]
            /\ LET it == [NoIt EXCEPT !.key = key, !.d = d]
               IN  IF call.ki < Len(call.imgs)
                   THEN /\ call' = [call EXCEPT !.ki = @ + 1]
                        /\ last' = [last EXCEPT !.it = it]
                   ELSE /\ call' = Idle
                        /\ last' = [last EXCEPT !.it = it, !.outcome = "ok"]

----------------------------------------------------------------------------
(* Flip.__call__.                                                          *)

\* the rule passed in kwargs ignored
FlipRule_IgnoresKwargs(given, rule, draws) == RuleOf(draws)

\* rule = kwargs['rule'] if 'rule' in kwargs else np.random.rand(4) > 0.5
FlipRule(given, rule, draws) == IF given THEN rule ELSE RuleOf(draws)

\* every volume of the sample is replaced by flip(v, rule), a view of v;
\* again: the sample passed is the one the previous call returned
FlipCall ==
    /\ inst = "Flip"
    /\ call.pc = "idle"
    /\ nCalls < MaxCalls
    /\ nCalls' = nCalls + 1
    /\ \E again \in {b \in BOOLEAN : b => nCalls > 0}, s \in Samples, given \in BOOLEAN :
       \E arg \in IF given THEN Rules ELSE {NoIt.rule},
          draws \in [1 .. 4 -> Rand] :
        LET rule == FlipRule(given, arg, draws)
            in   == IF again THEN sample ELSE s
        IN  /\ pre' = in
            /\ sample' = [k \in Keys |-> flip(in[k], rule)]
            /\ caller' = IF again THEN caller ELSE s
            /\ bound' = [k \in Keys |-> (again => bound[k]) /\ \A q \in 1 .. 4 : ~rule[q]]
            /\ last' = [Op("call", [NoArg EXCEPT !.b = given], "ok")
                            EXCEPT !.it = [NoIt EXCEPT !.rule = rule]]
            /\ hist' = [hist EXCEPT !.rules =
                            IF again THEN Append(@, [given |-> given, rule |-> arg])
                                     ELSE <<[given |-> given, rule |-> arg]>>]
    /\ UNCHANGED <<inst, cfg, skip, call>>

----------------------------------------------------------------------------
(* The driver.                                                             *)

Init ==
    /\ inst = "none"
    /\ cfg = NoCfg
    /\ skip = NoSkip
    /\ sample = NoSample
    /\ caller = NoSample
    /\ bound = AllBound
    /\ call = Idle
    /\ pre = NoSample
    /\ last = Op("none", NoArg, "ok")
    /\ hist = NoHist
    /\ nCalls = 0

\* construction, prepare and __call__
Next ==
    \/ NewBlur
    \/ NewLongAff
    \/ NewFlip
    \/ Prepare
    \/ FlipPrepare
    \/ BlurCall
    \/ BlurStep
    \/ GreyCall
    \/ GreyStep2D
    \/ GreyStep3D
    \/ FlipCall

Spec == Init /\ [][Next]_vars

\* construction and the setters
NextCfg ==
    \/ NewBlur
    \/ NewLongAff
    \/ NewFlip
    \/ SetMaxSections
    \/ SetSigmaMax
    \/ SetBlurMode
    \/ SetGreyMode
    \/ SetSkipRatio

SpecCfg == Init /\ [][NextCfg]_vars

----------------------------------------------------------------------------
(* Properties.                                                             *)

Skipping == {"Blur", "LongAff"}
LastCall(cls) == inst = cls /\ last.op = "call"
\* the last __call__ went past "if not self.skip"
NonSkipped == last.outcome \notin {"skipped", "AttributeError"}
Selected == Range(last.imgs)
AllTrue == [q \in 1 .. 4 |-> TRUE]
AllFalse == [q \in 1 .. 4 |-> FALSE]

\* C1: with skip_ratio = 1.0, a __call__ of Blur or LongAff after a prepare
\* returns with every volume of the sample, and every array of the caller,
\* equal to its input, whatever the mode, the sample and the keys.
C1_SkipRatioOneIsIdentity ==
    (inst \in Skipping /\ last.op = "call" /\ skip.set /\ cfg.skip_ratio = RandDen)
        => /\ call.pc = "idle"
           /\ last.outcome = "skipped"
           /\ sample = pre
           /\ caller = pre

C1_Witness ==
    /\ LastCall("Blur")
    /\ cfg.skip_ratio = RandDen
    /\ cfg.mode = "partial"
    /\ cfg.MAX_SEC = 1
    /\ last.outcome = "skipped"
    /\ last.imgs = <<"img", "aux">>
    /\ pre["img"].shape = <<2, 2, 2>>

\* the asserts' conditions, as the claims state them
ExtentsDiffer(s, imgs) ==
    \E k1 \in Range(imgs), k2 \in Range(imgs) : s[k1].shape # s[k2].shape
CountTooLarge(s, imgs, n) ==
    \E k \in Range(imgs) : n >= s[k].shape[1]

\* C2: a Blur.__call__ that raises AssertionError leaves the sample as it was
\* passed, and a call whose drawn count or extents violate the precondition
\* raises it before any slice is written.
C2_NoPartialMutation ==
    LastCall("Blur") =>
        /\ last.outcome = "AssertionError" => (sample = pre /\ caller = pre)
        /\ (last.num_sec >= 1 /\ (ExtentsDiffer(pre, last.imgs)
                                    \/ CountTooLarge(pre, last.imgs, last.num_sec)))
              => (last.outcome = "AssertionError" /\ call.pc = "idle" /\ sample = pre)

C2_Witness ==
    /\ LastCall("Blur")
    /\ last.outcome = "AssertionError"
    /\ ExtentsDiffer(pre, last.imgs)
    /\ ~CountTooLarge(pre, last.imgs, last.num_sec)
    /\ cfg.sigma_max > 0

\* C3, as claimed: a non-skipped Blur.__call__ raises AssertionError whenever
\* MAX_SEC >= Z for the selected volumes, whatever count is drawn.
C3_Original ==
    (LastCall("Blur") /\ NonSkipped /\ Selected # {}
        /\ \A k \in Selected : cfg.MAX_SEC >= pre[k].shape[1])
        => last.outcome = "AssertionError"

\* C3, amended: a non-skipped Blur.__call__ raises AssertionError whenever the
\* count it drew is not less than the z-extent of a selected volume, and runs
\* only with a count less than every selected z-extent; with MAX_SEC = 1 and
\* a selected volume of Z = 1 it always raises.
C3_DrawnCountMustFit ==
    LastCall("Blur") =>
        /\ (last.num_sec >= 1 /\ CountTooLarge(pre, last.imgs, last.num_sec))
              => last.outcome = "AssertionError"
        /\ last.outcome \in {"running", "ok"}
              => (last.num_sec >= 1 /\ ~CountTooLarge(pre, last.imgs, last.num_sec))
        /\ (NonSkipped /\ cfg.MAX_SEC = 1 /\ \E k \in Selected : pre[k].shape[1] = 1)
              => last.outcome = "AssertionError"

C3_Witness ==
    /\ LastCall("Blur")
    /\ last.outcome = "AssertionError"
    /\ ~ExtentsDiffer(pre, last.imgs)
    /\ cfg.MAX_SEC = 1
    /\ \A k \in Selected : pre[k].shape[1] = 1
    /\ Selected = Keys

\* the z-slices that differ from the input for at least one selected key
ChangedSlices ==
    {z \in 0 .. pre[last.imgs[1]].shape[1] - 1 :
        \E k \in Selected : Slice(sample[k], z) # Slice(pre[k], z)}

\* what a Blur.__call__ leaves alone: the shapes, the keys not selected, and
\* the slices of the selected keys outside zs
BlurFrame(zs) ==
    /\ \A k \in Keys : sample[k].shape = pre[k].shape
    /\ \A k \in Keys \ Selected : sample[k] = pre[k]
    /\ \A k \in Selected : \A z \in 0 .. pre[k].shape[1] - 1 :
            z \notin zs => Slice(sample[k], z) = Slice(pre[k], z)

FullDone == LastCall("Blur") /\ last.mode = "full" /\ last.outcome = "ok"

\* C4, as claimed: after a non-skipped Blur.__call__ in mode 'full', exactly
\* num_sec z-slices differ from the input, and all else is untouched.
C4_Original ==
    FullDone => (Cardinality(ChangedSlices) = last.num_sec /\ BlurFrame(ChangedSlices))

\* C4, amended: after a non-skipped Blur.__call__ in mode 'full', num_sec
\* distinct z-indices were chosen, 1 <= num_sec <= MAX_SEC; only slices at
\* those indices can differ from the input (so at most num_sec do), and every
\* other slice of every volume is untouched.
C4_AtMostNumSecSlicesChange ==
    FullDone =>
        /\ last.num_sec \in 1 .. cfg.MAX_SEC
        /\ Cardinality(last.zlocs) = last.num_sec
        /\ ChangedSlices \subseteq last.zlocs
        /\ Cardinality(ChangedSlices) <= last.num_sec
        /\ BlurFrame(last.zlocs)

C4_Witness ==
    /\ FullDone
    /\ last.num_sec = 2
    /\ Cardinality(ChangedSlices) = 2

\* C5: in mode 'partial', after the pass over slice z of a key with the split
\* point (x, y) and the flips rule, each pixel of the slice is the blurred
\* slice B's where its quadrant's flip is true and the input's where it is
\* false; with no flip true the slice is the input's, with all four it is B.
C5_OnlyFlippedQuadrantsChange ==
    (LastCall("Blur") /\ last.mode = "partial" /\ last.it.key # "") =>
        LET it  == last.it
            in  == Slice(pre[it.key], it.z)
            out == Slice(sample[it.key], it.z)
            B   == GaussianFilter(in, it.sigma)
            quadrantOf(i) == IF i[1] < it.y THEN (IF i[2] < it.x THEN 1 ELSE 3)
                                            ELSE (IF i[2] < it.x THEN 2 ELSE 4)
        IN  /\ ~it.full
            /\ it.y \in 0 .. in.shape[1] - 1
            /\ it.x \in 0 .. in.shape[2] - 1
            /\ \A i \in DOMAIN in.px :
                  out.px[i] = IF it.rule[quadrantOf(i)] THEN B.px[i] ELSE in.px[i]
            /\ it.rule = AllFalse => out = in
            /\ it.rule = AllTrue => out = B

C5_Witness ==
    /\ LastCall("Blur")
    /\ last.mode = "partial"
    /\ last.it.key = "img"
    /\ last.it.y = 1
    /\ last.it.x = 1
    /\ last.it.rule = [q \in 1 .. 4 |-> q = 3]
    /\ LET in  == Slice(pre["img"], last.it.z)
           out == Slice(sample["img"], last.it.z)
       IN  /\ out.px[<<0, 1>>] # in.px[<<0, 1>>]
           /\ out.px[<<1, 1>>] = in.px[<<1, 1>>]
           /\ out # GaussianFilter(in, last.it.sigma)

\* C6, as claimed: after a non-skipped LongAff.__call__ in any mode, every
\* value of every selected volume lies in [0, 1].
C6_Original ==
    (LastCall("LongAff") /\ last.outcome = "ok") =>
        \A k \in Selected : \A i \in DOMAIN sample[k].data :
            sample[k].data[i] >= 0 /\ sample[k].data[i] <= One

\* C6, where augment2D or augment3D ran: the values lie in [0, 1].
C6_InRangeWhereAugmented ==
    (LastCall("LongAff") /\ last.outcome = "ok" /\ last.mode # "none") =>
        \A k \in Selected : \A i \in DOMAIN sample[k].data :
            sample[k].data[i] >= 0 /\ sample[k].data[i] <= One

\* C7: two calls of Flip on one sample, each passed the all-true rule, return
\* every volume to its contents (and shape) before the first.
C7_AllTrueFlipTwiceIsIdentity ==
    (inst = "Flip" /\ Len(hist.rules) = 2
        /\ \A n \in 1 .. 2 : hist.rules[n].given /\ hist.rules[n].rule = AllTrue)
        => sample = caller

C7_Witness ==
    /\ inst = "Flip"
    /\ Len(hist.rules) = 2
    /\ \A n \in 1 .. 2 : hist.rules[n].given /\ hist.rules[n].rule = AllTrue
    /\ sample = caller
    /\ pre # sample
    /\ pre["img"].shape = <<2, 2, 1>>
    /\ sample["img"].shape = <<2, 1, 2>>

\* the stored configuration is one the setters accept
StoredConfigValid ==
    /\ inst = "Blur" =>
          /\ cfg.MAX_SEC >= 0
          /\ cfg.sigma_max >= 0
          /\ cfg.mode \in BlurModes
          /\ cfg.skip_ratio >= 0 /\ cfg.skip_ratio <= RandDen
    /\ inst = "LongAff" =>
          /\ cfg.mode \in GreyModes
          /\ cfg.skip_ratio >= 0 /\ cfg.skip_ratio <= RandDen

\* the argument of the setter call recorded in rec is one the claim calls valid
ArgAccepted(rec) ==
    CASE rec.op = "set_max_sections" -> rec.arg.n >= 0
      [] rec.op = "set_sigma_max"    -> rec.arg.n >= 0
      [] rec.op = "set_skip_ratio"   -> rec.arg.n >= 0 /\ rec.arg.n <= RandDen
      [] rec.op = "set_mode"         -> rec.arg.s \in (IF inst = "Blur" THEN BlurModes ELSE GreyModes)
      [] OTHER                        -> TRUE

SetterOps == {"set_max_sections", "set_sigma_max", "set_skip_ratio", "set_mode"}

\* C8: after any constructor and setter calls the stored configuration is
\* valid; a constructor that raises binds no instance; a setter called with
\* an invalid argument raises and leaves the stored configuration unchanged,
\* and one called with a valid argument does not raise.
C8_ConfigErrorsImmediate ==
    /\ [](StoredConfigValid)
    /\ [][ /\ (last'.op = "init" /\ last'.outcome # "ok") => (inst' = inst /\ cfg' = cfg)
           /\ (last'.op \in SetterOps /\ ~ArgAccepted(last'))
                 => (last'.outcome = "AssertionError" /\ cfg' = cfg)
           /\ (last'.op \in SetterOps /\ ArgAccepted(last')) => last'.outcome = "ok"
         ]_vars

C8_Witness ==
    /\ inst = "LongAff"
    /\ last.op = "set_skip_ratio"
    /\ last.arg.n > RandDen
    /\ last.outcome = "AssertionError"
    /\ cfg.skip_ratio = RandDen

\* C9, as claimed: a skip value drawn by prepare is read by one __call__ only.
C9_Original == inst \in Skipping => hist.reads <= 1

\* C9, amended: skip is written by prepare alone (a __call__ reads it and
\* leaves it set); a __call__ acts on the value of the latest prepare, however
\* many calls have read it already; a __call__ before any prepare raises and
\* leaves the sample as it was passed.
C9_SkipKeptUntilNextPrepare ==
    /\ [](inst \in Skipping =>
            /\ last.op = "prepare" =>
                  (skip.set /\ skip.val = (last.arg.n < cfg.skip_ratio) /\ hist.reads = 0)
            /\ last.op = "call" =>
                  IF skip.set
                  THEN hist.reads >= 1 /\ (last.outcome = "skipped" <=> skip.val)
                  ELSE last.outcome = "AttributeError" /\ sample = pre /\ hist.reads = 0)
    /\ [][skip' # skip => last'.op = "prepare"]_vars

C9_Witness ==
    /\ LastCall("LongAff")
    /\ hist.reads = 2
    /\ ~skip.val
    /\ last.outcome = "ok"
    /\ sample # pre

\* C10, as claimed: for every accepted MAX_SEC, 0 included, a non-skipped
\* Blur.__call__ draws num_sec in 1 .. MAX_SEC and the draw does not fail.
C10_Original ==
    (LastCall("Blur") /\ NonSkipped) =>
        (last.outcome # "ValueError" /\ last.num_sec \in 1 .. cfg.MAX_SEC)

\* C11, as claimed: after a non-skipped __call__ of LongAff that took the 3D
\* path, for every selected key the array the caller passed in is still the
\* object stored under sample[key], and it holds the result of all four steps
\* (contrast, brightness, clip, gamma).
C11_Original ==
    (LastCall("LongAff") /\ last.outcome = "ok" /\ last.mode = "3D") =>
        \A k \in Selected : bound[k] /\ caller[k] = sample[k]

\* C11, on the 2D path: the slices are written back into the array the
\* caller passed in, which stays the object under the key and holds the result.
C11_InPlaceOn2DPath ==
    (LastCall("LongAff") /\ last.outcome = "ok" /\ last.mode = "2D") =>
        \A k \in Selected : bound[k] /\ caller[k] = sample[k]

\* C11, what augment3D leaves: the caller's array is no longer the object
\* under the key and holds the values after contrast and brightness only.
C11_CallerHoldsIntermediate ==
    (LastCall("LongAff") /\ last.outcome = "ok" /\ last.mode = "3D") =>
        \A k \in Selected :
            /\ ~bound[k]
            /\ caller[k].shape = sample[k].shape
            /\ \A i \in DOMAIN sample[k].data :
                 sample[k].data[i] \in {Pow(Clip(caller[k].data[i]), h) : h \in 1 .. 3}

====
